---- MODULE Spec2Model ----
(***************************************************************************)
(* A model of meow (src/main.rs): argument parsing, the main loop over the *)
(* input sources, the per-line stream filter / numberer / renderer of      *)
(* process_input, and the interactive shell.                               *)
(*                                                                         *)
(* Text is modelled as it is in the program: a string is a sequence of     *)
(* Unicode code points (naturals), so an ANSI escape sequence is the five  *)
(* characters ESC [ d d m and an empty styling token is the empty string.  *)
(***************************************************************************)
EXTENDS Integers, Sequences, FiniteSets, TLC

VARIABLES
    args,             \* env::args(): the argument vector, args[1] is the program name
    tty,              \* atty::is(Stdout): is standard output a terminal
    disk,             \* the file system: file name -> sequence of raw lines
    stdin,            \* the lines standard input holds for the data source
    config,           \* main's Config
    pc,               \* position of the program
    fi,               \* main: index in config.files of the next file
    cur,              \* process_input's frame: config, lines, position, line_num, prev_blank
    out,              \* lines written by process_input's line mode, in order
    paged,            \* contents handed to the pager, in order
    animated,         \* contents handed to animate_text, in order
    diag,             \* diagnostics printed (error kind and source), in order
    srcs,             \* one record per source main or the shell has started
    inputs,           \* interactive shell: every line read_line returned so far
    command_history   \* interactive shell: command_history

vars == <<args, tty, disk, stdin, config, pc, fi, cur, out, paged, animated,
          diag, srcs, inputs, command_history>>

----------------------------------------------------------------------------
(* Characters and strings *)

Printable ==
    <<" ", "!", "\"", "#", "$", "%", "&", "'", "(", ")", "*", "+", ",", "-", ".", "/",
      "0", "1", "2", "3", "4", "5", "6", "7", "8", "9", ":", ";", "<", "=", ">", "?",
      "@", "A", "B", "C", "D", "E", "F", "G", "H", "I", "J", "K", "L", "M", "N", "O",
      "P", "Q", "R", "S", "T", "U", "V", "W", "X", "Y", "Z", "[", "\\", "]", "^", "_",
      "backquote", "a", "b", "c", "d", "e", "f", "g", "h", "i", "j", "k", "l", "m", "n", "o",
      "p", "q", "r", "s", "t", "u", "v", "w", "x", "y", "z", "{", "|", "}", "~">>

\* The code point of a printable ASCII character.
Ord(ch) == 31 + CHOOSE i \in 1..Len(Printable) : Printable[i] = ch

\* A string literal: the code points of its characters.
Str(chars) == [i \in 1..Len(chars) |-> Ord(chars[i])]

ESC == 27
TAB == 9

\* "\x1B[<digits>m"
Sgr(digits) == <<ESC, Ord("[")>> \o Str(digits) \o <<Ord("m")>>

RECURSIVE Concat(_)
Concat(ss) == IF ss = <<>> THEN <<>> ELSE Head(ss) \o Concat(Tail(ss))

\* char::is_control: general category Cc
IsControl(c) == c \in 0..31 \/ c \in 127..159

\* char::is_whitespace: the White_Space property
IsWhitespace(c) ==
    c \in (9..13) \cup {32, 133, 160, 5760, 8232, 8233, 8239, 8287, 12288}
      \cup (8192..8202)

\* str::trim
RECURSIVE TrimStart(_)
TrimStart(s) ==
    IF s # <<>> /\ IsWhitespace(Head(s)) THEN TrimStart(Tail(s)) ELSE s

RECURSIVE TrimEnd(_)
TrimEnd(s) ==
    IF s # <<>> /\ IsWhitespace(s[Len(s)])
    THEN TrimEnd(SubSeq(s, 1, Len(s) - 1)) ELSE s

Trim(s) == TrimEnd(TrimStart(s))

\* str::split_whitespace: the maximal runs of non-whitespace characters
RECURSIVE SplitWhitespaceFrom(_, _)
SplitWhitespaceFrom(s, word) ==
    IF s = <<>> THEN (IF word = <<>> THEN <<>> ELSE <<word>>)
    ELSE IF IsWhitespace(Head(s))
         THEN (IF word = <<>> THEN <<>> ELSE <<word>>) \o SplitWhitespaceFrom(Tail(s), <<>>)
         ELSE SplitWhitespaceFrom(Tail(s), Append(word, Head(s)))

SplitWhitespace(s) == SplitWhitespaceFrom(s, <<>>)

\* Does pattern p occur in s at (1-based) position i
MatchAt(s, p, i) ==
    /\ i + Len(p) - 1 <= Len(s)
    /\ SubSeq(s, i, i + Len(p) - 1) = p

\* str::contains with a string pattern (the empty pattern is contained in every string)
Contains(s, p) == \E i \in 1..(Len(s) + 1) : MatchAt(s, p, i)

StartsWith(s, p) == Len(p) <= Len(s) /\ SubSeq(s, 1, Len(p)) = p

\* str::split with a string pattern: the pieces between the leftmost
\* non-overlapping matches. The empty pattern matches at every character
\* boundary, the two ends included: "ab".split("") is ["", "a", "b", ""].
RECURSIVE SplitFrom(_, _, _, _)
SplitFrom(s, p, i, start) ==
    IF i + Len(p) - 1 > Len(s) THEN <<SubSeq(s, start, Len(s))>>
    ELSE IF MatchAt(s, p, i)
         THEN <<SubSeq(s, start, i - 1)>> \o SplitFrom(s, p, i + Len(p), i + Len(p))
         ELSE SplitFrom(s, p, i + 1, start)

Split(s, p) ==
    IF p = <<>>
    THEN <<(<<>>)>> \o [i \in 1..Len(s) |-> <<s[i]>>] \o <<(<<>>)>>
    ELSE SplitFrom(s, p, 1, 1)

\* The decimal digits of a natural number
RECURSIVE Digits(_)
Digits(n) ==
    IF n < 10 THEN <<Ord("0") + n>>
    ELSE Digits(n \div 10) \o <<Ord("0") + (n % 10)>>

\* format!("{:6}", n): right-aligned in a field of at least 6 characters
RECURSIVE PadLeft(_, _)
PadLeft(s, width) == IF Len(s) >= width THEN s ELSE PadLeft(<<Ord(" ")>> \o s, width)

NumberWidth == 6

----------------------------------------------------------------------------
(* ColorConfig and Config *)

ColorConfigNew(use_colors) ==
    IF use_colors
    THEN [normal    |-> Sgr(<<"0">>),
          number    |-> Sgr(<<"3", "3">>),
          highlight |-> Sgr(<<"3", "6">>),
          error     |-> Sgr(<<"3", "1">>),
          success   |-> Sgr(<<"3", "2">>),
          filename  |-> Sgr(<<"3", "5">>),
          reset     |-> Sgr(<<"0">>)]
    ELSE [normal |-> <<>>, number |-> <<>>, highlight |-> <<>>, error |-> <<>>,
          success |-> <<>>, filename |-> <<>>, reset |-> <<>>]

\* Option<String>
None == [some |-> FALSE, val |-> <<>>]
Some(v) == [some |-> TRUE, val |-> v]

ConfigNew(is_tty) ==
    [show_line_numbers    |-> FALSE,
     show_ends            |-> FALSE,
     show_tabs            |-> FALSE,
     squeeze_blank        |-> FALSE,
     number_nonblank      |-> FALSE,
     show_all_nonprinting |-> FALSE,
     show_line_length     |-> FALSE,
     rainbow_mode         |-> FALSE,
     use_colors           |-> is_tty,
     interactive_mode     |-> FALSE,
     show_meta            |-> FALSE,
     grep_pattern         |-> None,
     page_mode            |-> FALSE,
     animate              |-> FALSE,
     highlight_pattern    |-> None,
     files                |-> <<>>,
     colors               |-> ColorConfigNew(is_tty)]

NoColor(c) == [c EXCEPT !.use_colors = FALSE, !.colors = ColorConfigNew(FALSE)]

\* The long options that set one flag
LongFlag(c, arg) ==
    CASE arg = Str(<<"-","-","n","u","m","b","e","r">>) ->
            [c EXCEPT !.show_line_numbers = TRUE]
      [] arg = Str(<<"-","-","s","h","o","w","-","e","n","d","s">>) ->
            [c EXCEPT !.show_ends = TRUE]
      [] arg = Str(<<"-","-","s","h","o","w","-","t","a","b","s">>) ->
            [c EXCEPT !.show_tabs = TRUE]
      [] arg = Str(<<"-","-","s","q","u","e","e","z","e","-","b","l","a","n","k">>) ->
            [c EXCEPT !.squeeze_blank = TRUE]
      [] arg = Str(<<"-","-","n","u","m","b","e","r","-","n","o","n","b","l","a","n","k">>) ->
            [c EXCEPT !.number_nonblank = TRUE]
      [] arg = Str(<<"-","-","s","h","o","w","-","n","o","n","p","r","i","n","t","i","n","g">>) ->
            [c EXCEPT !.show_all_nonprinting = TRUE]
      [] arg = Str(<<"-","-","s","h","o","w","-","l","e","n","g","t","h">>) ->
            [c EXCEPT !.show_line_length = TRUE]
      [] arg = Str(<<"-","-","r","a","i","n","b","o","w">>) ->
            [c EXCEPT !.rainbow_mode = TRUE]
      [] arg = Str(<<"-","-","n","o","-","c","o","l","o","r">>) -> NoColor(c)
      [] arg = Str(<<"-","-","i","n","t","e","r","a","c","t","i","v","e">>) ->
            [c EXCEPT !.interactive_mode = TRUE]
      [] arg = Str(<<"-","-","m","e","t","a">>) -> [c EXCEPT !.show_meta = TRUE]
      [] arg = Str(<<"-","-","p","a","g","e">>) -> [c EXCEPT !.page_mode = TRUE]
      [] arg = Str(<<"-","-","a","n","i","m","a","t","e">>) -> [c EXCEPT !.animate = TRUE]
      [] OTHER -> c

LongFlags ==
    { Str(<<"-","-","n","u","m","b","e","r">>),
      Str(<<"-","-","s","h","o","w","-","e","n","d","s">>),
      Str(<<"-","-","s","h","o","w","-","t","a","b","s">>),
      Str(<<"-","-","s","q","u","e","e","z","e","-","b","l","a","n","k">>),
      Str(<<"-","-","n","u","m","b","e","r","-","n","o","n","b","l","a","n","k">>),
      Str(<<"-","-","s","h","o","w","-","n","o","n","p","r","i","n","t","i","n","g">>),
      Str(<<"-","-","s","h","o","w","-","l","e","n","g","t","h">>),
      Str(<<"-","-","r","a","i","n","b","o","w">>),
      Str(<<"-","-","n","o","-","c","o","l","o","r">>),
      Str(<<"-","-","i","n","t","e","r","a","c","t","i","v","e">>),
      Str(<<"-","-","m","e","t","a">>),
      Str(<<"-","-","p","a","g","e">>),
      Str(<<"-","-","a","n","i","m","a","t","e">>) }

GrepEq == Str(<<"-","-","g","r","e","p","=">>)
HighlightEq == Str(<<"-","-","h","i","g","h","l","i","g","h","t","=">>)

\* One long option (the match of lines 101-129): the new config, or ok = FALSE
\* where parse_args returns false
LongOption(c, arg) ==
    IF arg = Str(<<"-","-","h","e","l","p">>) THEN [ok |-> FALSE, c |-> c]
    ELSE IF arg \in LongFlags THEN [ok |-> TRUE, c |-> LongFlag(c, arg)]
    ELSE IF StartsWith(arg, GrepEq)
         THEN [ok |-> TRUE,
               c |-> [c EXCEPT !.grep_pattern =
                                   Some(SubSeq(arg, Len(GrepEq) + 1, Len(arg)))]]
    ELSE IF StartsWith(arg, HighlightEq)
         THEN [ok |-> TRUE,
               c |-> [c EXCEPT !.highlight_pattern =
                                   Some(SubSeq(arg, Len(HighlightEq) + 1, Len(arg)))]]
    ELSE [ok |-> FALSE, c |-> c]

\* The short options that set one flag
ShortFlag(c, ch) ==
    CASE ch = Ord("n") -> [c EXCEPT !.show_line_numbers = TRUE]
      [] ch = Ord("E") -> [c EXCEPT !.show_ends = TRUE]
      [] ch = Ord("T") -> [c EXCEPT !.show_tabs = TRUE]
      [] ch = Ord("s") -> [c EXCEPT !.squeeze_blank = TRUE]
      [] ch = Ord("b") -> [c EXCEPT !.number_nonblank = TRUE]
      [] ch = Ord("A") -> [c EXCEPT !.show_all_nonprinting = TRUE]
      [] ch = Ord("l") -> [c EXCEPT !.show_line_length = TRUE]
      [] ch = Ord("r") -> [c EXCEPT !.rainbow_mode = TRUE]
      [] ch = Ord("C") -> NoColor(c)
      [] ch = Ord("i") -> [c EXCEPT !.interactive_mode = TRUE]
      [] ch = Ord("m") -> [c EXCEPT !.show_meta = TRUE]
      [] ch = Ord("p") -> [c EXCEPT !.page_mode = TRUE]
      [] ch = Ord("a") -> [c EXCEPT !.animate = TRUE]
      [] OTHER -> c

ShortFlags ==
    { Ord(ch) : ch \in {"n", "E", "T", "s", "b", "A", "l", "r", "C", "i", "m", "p", "a"} }

\* The loop over the characters of a short-option argument (lines 132-174):
\* k is the position in arg, i the index in argv, which -g and -H advance.
RECURSIVE ShortOptions(_, _, _, _, _)
ShortOptions(c, argv, arg, k, i) ==
    IF k > Len(arg) THEN [ok |-> TRUE, c |-> c, i |-> i]
    ELSE IF arg[k] \in ShortFlags
         THEN ShortOptions(ShortFlag(c, arg[k]), argv, arg, k + 1, i)
    ELSE IF arg[k] = Ord("g")
         THEN IF i + 1 <= Len(argv)
              THEN ShortOptions([c EXCEPT !.grep_pattern = Some(argv[i + 1])],
                                argv, arg, k + 1, i + 1)
              ELSE [ok |-> FALSE, c |-> c, i |-> i]
    ELSE IF arg[k] = Ord("H")
         THEN IF i + 1 <= Len(argv)
              THEN ShortOptions([c EXCEPT !.highlight_pattern = Some(argv[i + 1])],
                                argv, arg, k + 1, i + 1)
              ELSE [ok |-> FALSE, c |-> c, i |-> i]
    ELSE [ok |-> FALSE, c |-> c, i |-> i]

\* Is the argument taken as a file path (the else branch of line 175)
IsFileArg(arg) ==
    /\ ~StartsWith(arg, Str(<<"-", "-">>))
    /\ ~(StartsWith(arg, Str(<<"-">>)) /\ Len(arg) > 1)

\* Config::parse_args, from argv[i] on
RECURSIVE ParseArgsFrom(_, _, _)
ParseArgsFrom(c, argv, i) ==
    IF i > Len(argv) THEN [ok |-> TRUE, c |-> c]
    ELSE IF StartsWith(argv[i], Str(<<"-", "-">>))
         THEN LET r == LongOption(c, argv[i])
              IN  IF r.ok THEN ParseArgsFrom(r.c, argv, i + 1) ELSE r
    ELSE IF ~IsFileArg(argv[i])
         THEN LET r == ShortOptions(c, argv, argv[i], 2, i)
              IN  IF r.ok THEN ParseArgsFrom(r.c, argv, r.i + 1)
                  ELSE [ok |-> FALSE, c |-> r.c]
    ELSE ParseArgsFrom([c EXCEPT !.files = Append(@, argv[i])], argv, i + 1)

\* args[0] is the program name: the loop starts at the second argument
ParseArgs(c, argv) == ParseArgsFrom(c, argv, 2)

----------------------------------------------------------------------------
(* process_input: the stream filter, the numbering and the line renderer *)

\* line.trim().is_empty()
IsBlank(line) == Trim(line) = <<>>

\* Mutant: line_num and prev_blank are kept from the previous call
StartStateKept == [line_num |-> cur.line_num, prev_blank |-> cur.prev_blank]

\* line_num and prev_blank at the start of process_input (lines 311-312)
StartState == [line_num |-> 0, prev_blank |-> FALSE]

\* The squeeze test of line 321
Squeezed(c, prev_blank, line) == c.squeeze_blank /\ IsBlank(line) /\ prev_blank

\* The grep test of lines 326-330
GrepRejected(c, line) ==
    c.grep_pattern.some /\ ~Contains(line, c.grep_pattern.val)

\* Mutant: the grep test's continue comes after the assignment of prev_blank
PrevBlankSetBeforeGrep(prev_blank, line) == IsBlank(line)

\* prev_blank after a line the grep test rejects: the continue of line 328
\* comes before the assignment of line 332
PrevBlankAfterGrepSkip(prev_blank, line) == prev_blank

\* Mutant: prev_blank is never assigned
PrevBlankNotAssigned(prev_blank, line) == prev_blank

\* prev_blank after a line that is printed (line 332)
PrevBlankAfterEmit(prev_blank, line) == IsBlank(line)

\* Mutant: show_line_numbers is tested before number_nonblank
LabelledNumberAllFirst(c, line) ==
    IF c.show_line_numbers THEN TRUE ELSE c.number_nonblank /\ ~IsBlank(line)

\* Does the printed line get a number (lines 335-345)
Labelled(c, line) ==
    IF c.number_nonblank THEN ~IsBlank(line) ELSE c.show_line_numbers

\* line_num += 1
NextLineNum(n) == n + 1

\* "{}{:6}{} | " with colors.number, line_num, colors.reset
NumberPrefix(c, n) ==
    c.colors.number \o PadLeft(Digits(n), NumberWidth) \o c.colors.reset
      \o Str(<<" ", "|", " ">>)

\* "       | "
BlankPrefix == Str(<<" ", " ", " ", " ", " ", " ", " ", "|", " ">>)

\* What is printed before the line (lines 335-345); n is line_num after the increment
Prefix(c, line, n) ==
    IF c.number_nonblank
    THEN (IF ~IsBlank(line) THEN NumberPrefix(c, n) ELSE BlankPrefix)
    ELSE IF c.show_line_numbers THEN NumberPrefix(c, n) ELSE <<>>

\* c as u8
AsU8(c) == c % 256

\* (c as u8 + 64) as char; the addition overflows u8 when the sum exceeds 255
CaretOverflows(c) == AsU8(c) + 64 > 255
CaretChar(c) == (AsU8(c) + 64) % 256

\* One character of the line with show_all_nonprinting (lines 353-360)
ShowNonprintingChar(c, ch) ==
    IF IsControl(ch) /\ ch # TAB THEN <<Ord("^"), CaretChar(ch)>>
    ELSE IF ch = TAB /\ c.show_tabs THEN Str(<<"^", "I">>)
    ELSE <<ch>>

\* line.replace('\t', "^I")
ReplaceTabs(line) ==
    Concat([i \in 1..Len(line) |->
               IF line[i] = TAB THEN Str(<<"^", "I">>) ELSE <<line[i]>>])

\* output_line (lines 348-369)
Transform(c, line) ==
    IF c.show_all_nonprinting
    THEN Concat([i \in 1..Len(line) |-> ShowNonprintingChar(c, line[i])])
    ELSE IF c.show_tabs THEN ReplaceTabs(line) ELSE line

\* The highlight branch taken when output_line contains the pattern (lines 374-379)
Highlighted(c, output_line, pattern) ==
    LET parts == Split(output_line, pattern)
    IN  parts[1] \o
        Concat([i \in 1..(Len(parts) - 1) |->
                   c.colors.highlight \o pattern \o c.colors.reset \o parts[i + 1]])

RainbowColors ==
    << Sgr(<<"3", "1">>), Sgr(<<"3", "3">>), Sgr(<<"3", "2">>),
       Sgr(<<"3", "6">>), Sgr(<<"3", "4">>), Sgr(<<"3", "5">>) >>

\* Rainbow mode (lines 385-392); the enumeration index starts at 0
Rainbow(c, output_line) ==
    Concat([i \in 1..Len(output_line) |->
               RainbowColors[((i - 1) % Len(RainbowColors)) + 1]
                 \o <<output_line[i]>> \o c.colors.reset])

\* Mutant: rainbow mode is the fallback of a highlight pattern that does not occur
EmphasisRainbowFallback(c, output_line) ==
    IF c.highlight_pattern.some /\ Contains(output_line, c.highlight_pattern.val)
    THEN Highlighted(c, output_line, c.highlight_pattern.val)
    ELSE IF c.rainbow_mode THEN Rainbow(c, output_line)
    ELSE output_line

\* What is printed for output_line (lines 372-395)
Emphasis(c, output_line) ==
    IF c.highlight_pattern.some
    THEN IF Contains(output_line, c.highlight_pattern.val)
         THEN Highlighted(c, output_line, c.highlight_pattern.val)
         ELSE output_line
    ELSE IF c.rainbow_mode THEN Rainbow(c, output_line)
    ELSE output_line

\* output_line.lines().count(): output_line holds no line feed
LinesCount(output_line) == IF output_line = <<>> THEN 0 ELSE 1

\* " {}[{}L, {}C]{}" (lines 398-404)
LengthSuffix(c, output_line) ==
    IF c.show_line_length
    THEN Str(<<" ">>) \o c.colors.normal \o Str(<<"[">>)
           \o Digits(LinesCount(output_line)) \o Str(<<"L", ",", " ">>)
           \o Digits(Len(output_line)) \o Str(<<"C", "]">>) \o c.colors.reset
    ELSE <<>>

\* "{}${}" (lines 407-411)
EndMarker(c) ==
    IF c.show_ends
    THEN (IF c.use_colors THEN c.colors.highlight ELSE <<>>)
           \o Str(<<"$">>) \o c.colors.reset
    ELSE <<>>

\* The record of one printed line: the source, the index of the input line, the
\* number printed (0: none) and the three parts of the text
Rendered(c, src, idx, line, n) ==
    [src    |-> src,
     idx    |-> idx,
     label  |-> IF Labelled(c, line) THEN n ELSE 0,
     prefix |-> Prefix(c, line, n),
     body   |-> Emphasis(c, Transform(c, line)),
     tail   |-> LengthSuffix(c, Transform(c, line)) \o EndMarker(c)]

----------------------------------------------------------------------------
(* The program *)

env == <<args, tty, disk, stdin>>

\* process_input's frame before its first call
NoFrame ==
    [c |-> ConfigNew(FALSE), lines |-> <<>>, pos |-> 1, line_num |-> 0,
     prev_blank |-> FALSE, ret |-> "main", src |-> 0]

Source(name, kind, via, mode, c, lines) ==
    [name |-> name, kind |-> kind, via |-> via, mode |-> mode, c |-> c,
     lines |-> lines, read |-> 0, status |-> "open"]

Note(kind, name) == [kind |-> kind, name |-> name]

\* read_all_content: the whole content, or, when the read fails, what had been
\* read when it failed (the error is printed and the content returned)
ReadAllContent(lines) ==
    {[content |-> lines, failed |-> FALSE]}
      \cup {[content |-> SubSeq(lines, 1, k), failed |-> TRUE] : k \in 0..Len(lines)}

\* A call of process_input(reader, c, name) that returns to ret (lines 303-314):
\* animate mode reads everything and returns; otherwise the line loop starts.
\* notes are the banners and diagnostics the caller printed before the call.
ProcessInput(c, name, kind, via, lines, ret, notes) ==
    IF c.animate
    THEN \E r \in ReadAllContent(lines) :
            /\ animated' = Append(animated, r.content)
            /\ srcs' = Append(srcs, [Source(name, kind, via, "animate", c, lines)
                                       EXCEPT !.read = Len(r.content),
                                              !.status = IF r.failed THEN "error" ELSE "eof"])
            /\ diag' = notes \o (IF r.failed THEN <<Note("content_error", name)>> ELSE <<>>)
            /\ pc' = ret
            /\ UNCHANGED cur
    ELSE /\ cur' = [c |-> c, lines |-> lines, pos |-> 1,
                    line_num |-> StartState.line_num,
                    prev_blank |-> StartState.prev_blank,
                    ret |-> ret, src |-> Len(srcs) + 1]
         /\ srcs' = Append(srcs, Source(name, kind, via, "line", c, lines))
         /\ diag' = notes
         /\ pc' = "lines"
         /\ UNCHANGED animated

\* main, lines 188-194: parse_args succeeds
ParseOk ==
    /\ pc = "start"
    /\ ParseArgs(config, args).ok
    /\ config' = ParseArgs(config, args).c
    /\ pc' = "main"
    /\ UNCHANGED <<env, fi, cur, out, paged, animated, diag, srcs, inputs,
                   command_history>>

\* main, lines 191-194: parse_args returns false, the help is printed
ParseFail ==
    /\ pc = "start"
    /\ ~ParseArgs(config, args).ok
    /\ config' = ParseArgs(config, args).c
    /\ diag' = Append(diag, Note("help", <<>>))
    /\ pc' = "help"
    /\ UNCHANGED <<env, fi, cur, out, paged, animated, srcs, inputs, command_history>>

\* main, lines 197-199: no file argument, standard input is the source
MainStdin ==
    /\ pc = "main"
    /\ config.files = <<>>
    /\ fi = 1
    /\ fi' = 2
    /\ ProcessInput(config, Str(<<"s","t","d","i","n">>), "stdin", "main", stdin,
                    "main", diag)
    /\ UNCHANGED <<env, config, out, paged, inputs, command_history>>

\* The "===>" line printed before a file when several are given (lines 206-213)
Banner(name) ==
    IF Len(config.files) > 1 THEN <<Note("banner", name)>> ELSE <<>>

\* main, lines 224-226: the file cannot be opened
MainOpenErr ==
    /\ pc = "main"
    /\ fi <= Len(config.files)
    /\ config.files[fi] \notin DOMAIN disk
    /\ diag' = Append(diag, Note("open_error", config.files[fi]))
    /\ srcs' = Append(srcs, Source(config.files[fi], "file", "main", "open_error",
                                   config, <<>>))
    /\ fi' = fi + 1
    /\ UNCHANGED <<env, config, pc, cur, out, paged, animated, inputs, command_history>>

\* main, lines 217-219: page mode, the content goes to the pager
MainPage ==
    /\ pc = "main"
    /\ fi <= Len(config.files)
    /\ config.files[fi] \in DOMAIN disk
    /\ config.page_mode
    /\ LET name == config.files[fi]
       IN  \E r \in ReadAllContent(disk[name]) :
              /\ paged' = Append(paged, r.content)
              /\ srcs' = Append(srcs, [Source(name, "file", "main", "page", config, disk[name])
                                         EXCEPT !.read = Len(r.content),
                                                !.status = IF r.failed THEN "error" ELSE "eof"])
              /\ diag' = diag \o Banner(name)
                           \o (IF r.failed THEN <<Note("content_error", name)>> ELSE <<>>)
    /\ fi' = fi + 1
    /\ UNCHANGED <<env, config, pc, cur, out, animated, inputs, command_history>>

\* page_content, lines 246-256: the pager cannot be started or fails, the
\* expect() panics and the process ends
MainPagePanic ==
    /\ pc = "main"
    /\ fi <= Len(config.files)
    /\ config.files[fi] \in DOMAIN disk
    /\ config.page_mode
    /\ diag' = diag \o Banner(config.files[fi])
                 \o <<Note("pager_panic", config.files[fi])>>
    /\ pc' = "panic"
    /\ UNCHANGED <<env, config, fi, cur, out, paged, animated, srcs, inputs,
                   command_history>>

\* main, lines 220-222: the file goes to process_input
MainFile ==
    /\ pc = "main"
    /\ fi <= Len(config.files)
    /\ config.files[fi] \in DOMAIN disk
    /\ ~config.page_mode
    /\ fi' = fi + 1
    /\ ProcessInput(config, config.files[fi], "file", "main", disk[config.files[fi]],
                    "main", diag \o Banner(config.files[fi]))
    /\ UNCHANGED <<env, config, out, paged, inputs, command_history>>

\* main, lines 231-235: every source is done
MainFinish ==
    /\ pc = "main"
    /\ IF config.files = <<>> THEN fi = 2 ELSE fi > Len(config.files)
    /\ pc' = IF config.interactive_mode THEN "shell" ELSE "done"
    /\ UNCHANGED <<env, config, fi, cur, out, paged, animated, diag, srcs, inputs,
                   command_history>>

\* The line the loop of process_input reads next
CurLine == cur.lines[cur.pos]

\* lines 321-323: a blank line after a blank line is skipped
SqueezeSkip ==
    /\ pc = "lines"
    /\ cur.pos <= Len(cur.lines)
    /\ Squeezed(cur.c, cur.prev_blank, CurLine)
    /\ cur' = [cur EXCEPT !.pos = @ + 1]
    /\ UNCHANGED <<env, config, pc, fi, out, paged, animated, diag, srcs, inputs,
                   command_history>>

\* lines 326-330: a line without the grep pattern is skipped
GrepSkip ==
    /\ pc = "lines"
    /\ cur.pos <= Len(cur.lines)
    /\ ~Squeezed(cur.c, cur.prev_blank, CurLine)
    /\ GrepRejected(cur.c, CurLine)
    /\ cur' = [cur EXCEPT !.pos = @ + 1,
                          !.prev_blank = PrevBlankAfterGrepSkip(@, CurLine)]
    /\ UNCHANGED <<env, config, pc, fi, out, paged, animated, diag, srcs, inputs,
                   command_history>>

\* lines 332-413: the line is numbered, rendered and printed
EmitLine ==
    /\ pc = "lines"
    /\ cur.pos <= Len(cur.lines)
    /\ ~Squeezed(cur.c, cur.prev_blank, CurLine)
    /\ ~GrepRejected(cur.c, CurLine)
    /\ LET n == IF Labelled(cur.c, CurLine) THEN NextLineNum(cur.line_num)
                ELSE cur.line_num
       IN  /\ out' = Append(out, Rendered(cur.c, cur.src, cur.pos, CurLine, n))
           /\ cur' = [cur EXCEPT !.pos = @ + 1,
                                 !.line_num = n,
                                 !.prev_blank = PrevBlankAfterEmit(@, CurLine)]
    /\ UNCHANGED <<env, config, pc, fi, paged, animated, diag, srcs, inputs,
                   command_history>>

\* lines 415-418: reading the next line fails, the loop breaks
ReadError ==
    /\ pc = "lines"
    /\ diag' = Append(diag, Note("read_error", srcs[cur.src].name))
    /\ srcs' = [srcs EXCEPT ![cur.src].read = cur.pos - 1, ![cur.src].status = "error"]
    /\ pc' = cur.ret
    /\ UNCHANGED <<env, config, fi, cur, out, paged, animated, inputs, command_history>>

\* line 315: lines.next() is None, process_input returns
EndOfInput ==
    /\ pc = "lines"
    /\ cur.pos > Len(cur.lines)
    /\ srcs' = [srcs EXCEPT ![cur.src].read = cur.pos - 1, ![cur.src].status = "eof"]
    /\ pc' = cur.ret
    /\ UNCHANGED <<env, config, fi, cur, out, paged, animated, diag, inputs,
                   command_history>>

----------------------------------------------------------------------------
(* interactive_shell *)

MaxInputs == 2

LF == 10

F == Str(<<"f">>)
G == Str(<<"g">>)
Missing == Str(<<"m">>)
Dash == Str(<<"-">>)

\* The lines read_line may return: commands with their line feed, a blank
\* line, and the empty string of a read at end of input
ShellInputs ==
    { Str(w) \o <<LF>> :
        w \in { <<"e","x","i","t">>, <<"q","u","i","t">>, <<"h","e","l","p">>,
                <<"h","i","s","t","o","r","y">>, <<"b","o","g","u","s">>,
                <<"c","a","t">>, <<"c","a","t"," ","f">>, <<" ","c","a","t"," "," ","m"," ">>,
                <<"g","r","e","p"," ","a"," ","f">>, <<"g","r","e","p"," ","a"," ","m">>,
                <<"h","i","g","h","l","i","g","h","t"," ","a"," ","f">>,
                <<"r","a","i","n","b","o","w"," ","f">>,
                <<" ">> } }
      \cup { <<>> }

\* The words the match of line 464 knows
ShellCommands ==
    { Str(<<"e","x","i","t">>), Str(<<"q","u","i","t">>), Str(<<"h","e","l","p">>),
      Str(<<"c","a","t">>), Str(<<"g","r","e","p">>),
      Str(<<"h","i","g","h","l","i","g","h","t">>), Str(<<"r","a","i","n","b","o","w">>),
      Str(<<"h","i","s","t","o","r","y">>) }

\* Mutant: the line is recorded only once its command is recognised
PushHistoryIfKnown(history, input) ==
    IF SplitWhitespace(Trim(input))[1] \in ShellCommands
    THEN Append(history, Trim(input)) ELSE history

\* input.trim() pushed on command_history (lines 451-456)
PushHistory(history, input) == Append(history, Trim(input))

\* parts (line 458)
Parts(input) == SplitWhitespace(Trim(input))

\* lines 446-456: a line is read, it is not empty after trim and is recorded
ShellAccept(input) ==
    /\ pc = "shell"
    /\ Len(inputs) < MaxInputs
    /\ Trim(input) # <<>>
    /\ inputs' = Append(inputs, input)
    /\ command_history' = PushHistory(command_history, input)

\* lines 447-449: read_line fails, the loop breaks
ShellReadErr ==
    /\ pc = "shell"
    /\ pc' = "done"
    /\ UNCHANGED <<env, config, fi, cur, out, paged, animated, diag, srcs, inputs,
                   command_history>>

\* lines 451-454: the line is empty after trim (a blank line, or nothing read
\* at end of input): the loop continues
ShellBlank ==
    \E input \in ShellInputs :
        /\ pc = "shell"
        /\ Len(inputs) < MaxInputs
        /\ Trim(input) = <<>>
        /\ inputs' = Append(inputs, input)
        /\ UNCHANGED <<env, config, pc, fi, cur, out, paged, animated, diag, srcs,
                       command_history>>

\* line 465: exit and quit break the loop
ShellExit ==
    \E input \in ShellInputs :
        /\ ShellAccept(input)
        /\ Parts(input)[1] \in {Str(<<"e","x","i","t">>), Str(<<"q","u","i","t">>)}
        /\ pc' = "done"
        /\ UNCHANGED <<env, config, fi, cur, out, paged, animated, diag, srcs>>

\* lines 466-474
ShellHelp ==
    \E input \in ShellInputs :
        /\ ShellAccept(input)
        /\ Parts(input)[1] = Str(<<"h","e","l","p">>)
        /\ diag' = Append(diag, Note("shell_help", <<>>))
        /\ UNCHANGED <<env, config, pc, fi, cur, out, paged, animated, srcs>>

\* lines 533-538: the history is printed, this command included
ShellHistory ==
    \E input \in ShellInputs :
        /\ ShellAccept(input)
        /\ Parts(input)[1] = Str(<<"h","i","s","t","o","r","y">>)
        /\ diag' = Append(diag, Note("shell_history", <<>>))
        /\ UNCHANGED <<env, config, pc, fi, cur, out, paged, animated, srcs>>

\* lines 539-542
ShellUnknown ==
    \E input \in ShellInputs :
        /\ ShellAccept(input)
        /\ Parts(input)[1] \notin ShellCommands
        /\ diag' = Append(diag, Note("shell_unknown", Parts(input)[1]))
        /\ UNCHANGED <<env, config, pc, fi, cur, out, paged, animated, srcs>>

\* The config a command renders its file with: current_config (cat), or a
\* clone with the grep pattern, the highlight pattern or rainbow mode set
LocalConfig(name, parts) ==
    CASE name = Str(<<"c","a","t">>) -> config
      [] name = Str(<<"g","r","e","p">>) -> [config EXCEPT !.grep_pattern = Some(parts[2])]
      [] name = Str(<<"h","i","g","h","l","i","g","h","t">>) ->
            [config EXCEPT !.highlight_pattern = Some(parts[2])]
      [] name = Str(<<"r","a","i","n","b","o","w">>) -> [config EXCEPT !.rainbow_mode = TRUE]

\* A command that renders a file (cat, grep, highlight, rainbow): with fewer than
\* nparts words the usage is printed; a file that cannot be opened is reported;
\* otherwise process_input runs on the file with the command's config
ShellFileCommand(input, name, nparts) ==
    LET parts == Parts(input)
    IN  /\ ShellAccept(input)
        /\ parts[1] = name
        /\ IF Len(parts) < nparts
           THEN /\ diag' = Append(diag, Note("shell_usage", name))
                /\ UNCHANGED <<pc, cur, animated, srcs>>
           ELSE IF parts[nparts] \notin DOMAIN disk
           THEN /\ diag' = Append(diag, Note("shell_open_error", parts[nparts]))
                /\ UNCHANGED <<pc, cur, animated, srcs>>
           ELSE ProcessInput(LocalConfig(name, parts), parts[nparts], "file", "shell",
                             disk[parts[nparts]], "shell", diag)
        /\ UNCHANGED <<env, config, fi, out, paged>>

\* lines 475-487
ShellCat ==
    \E input \in ShellInputs : ShellFileCommand(input, Str(<<"c","a","t">>), 2)

\* lines 488-502
ShellGrep ==
    \E input \in ShellInputs : ShellFileCommand(input, Str(<<"g","r","e","p">>), 3)

\* lines 503-517
ShellHighlight ==
    \E input \in ShellInputs :
        ShellFileCommand(input, Str(<<"h","i","g","h","l","i","g","h","t">>), 3)

\* lines 518-532
ShellRainbow ==
    \E input \in ShellInputs :
        ShellFileCommand(input, Str(<<"r","a","i","n","b","o","w">>), 2)

----------------------------------------------------------------------------
(* Specifications *)

\* main and process_input
Batch ==
    \/ ParseOk \/ ParseFail
    \/ MainStdin \/ MainOpenErr \/ MainPage \/ MainPagePanic \/ MainFile \/ MainFinish
    \/ SqueezeSkip \/ GrepSkip \/ EmitLine \/ ReadError \/ EndOfInput

\* interactive_shell
Shell ==
    \/ ShellReadErr \/ ShellBlank \/ ShellExit \/ ShellHelp \/ ShellHistory
    \/ ShellUnknown \/ ShellCat \/ ShellGrep \/ ShellHighlight \/ ShellRainbow

Next == Batch \/ Shell

\* The state after Config::new() in an environment: an argument vector, a
\* terminal or not, the files on disk and the lines on standard input
InitIn(environments) ==
    /\ \E e \in environments :
          /\ args = e.args
          /\ tty = e.tty
          /\ disk = e.disk
          /\ stdin = e.stdin
    /\ config = ConfigNew(tty)
    /\ pc = "start"
    /\ fi = 1
    /\ cur = NoFrame
    /\ out = <<>>
    /\ paged = <<>>
    /\ animated = <<>>
    /\ diag = <<>>
    /\ srcs = <<>>
    /\ inputs = <<>>
    /\ command_history = <<>>

Environment(argv, is_tty, files, input) ==
    [args |-> argv, tty |-> is_tty, disk |-> files, stdin |-> input]

Prog == Str(<<"m","e","o","w">>)

\* Sequences over S of length at most n
RECURSIVE SeqsUpTo(_, _)
SeqsUpTo(S, n) ==
    IF n = 0 THEN {<<>>}
    ELSE LET shorter == SeqsUpTo(S, n - 1)
         IN  shorter \cup {Append(q, x) : q \in shorter, x \in S}

\* A few command lines that between them take every path of main and of
\* process_input
Tour ==
    { Environment(<<Prog, Str(<<"-","s">>), F>>, FALSE,
                  F :> <<(<<>>), (<<>>), Str(<<"a">>)>>, <<>>),
      Environment(<<Prog, Str(<<"-","g">>), Str(<<"a">>), F>>, TRUE,
                  F :> <<Str(<<"b">>)>>, <<>>),
      Environment(<<Prog, Str(<<"-","p">>), F, Missing>>, TRUE,
                  F :> <<Str(<<"a">>)>>, <<>>),
      Environment(<<Prog>>, TRUE, <<>>, <<Str(<<"a">>), <<>>>>),
      Environment(<<Prog, Str(<<"-","-","b","o","g","u","s">>)>>, TRUE, <<>>, <<>>) }

\* The stream filter and the numbering: one file of up to MaxLines lines, blank
\* (empty or one space) or not, under every combination of -s, -n, -b and -g
MaxLines == 3

FilterLines == { <<>>, Str(<<" ">>), Str(<<"a">>), Str(<<" ", "a">>) }

FilterFlags ==
    { Concat(<<s, n, b, g>>) :
        s \in {<<>>, <<Str(<<"-","s">>)>>},
        n \in {<<>>, <<Str(<<"-","n">>)>>},
        b \in {<<>>, <<Str(<<"-","b">>)>>},
        g \in {<<>>, <<Str(<<"-","g">>), Str(<<"a">>)>>, <<Str(<<"-","g">>), Str(<<" ">>)>>} }

FilterEnvironments ==
    { Environment(<<Prog>> \o flags \o <<F>>, is_tty, F :> lines, <<>>) :
        flags \in FilterFlags, is_tty \in BOOLEAN,
        lines \in SeqsUpTo(FilterLines, MaxLines) }

InitFilter == InitIn(FilterEnvironments \cup Tour)

\* The program without --interactive
SpecFilter == InitFilter /\ [][Batch]_vars

----------------------------------------------------------------------------
(* Properties of the stream filter and the numbering *)

\* The lines printed for source s, in order
OutOf(s) == SelectSeq(out, LAMBDA o : o.src = s)

\* The raw input line a printed line comes from
RawLine(o) == srcs[o.src].lines[o.idx]

\* C1: with squeeze_blank set, at most one blank line is printed from any run
\* of consecutive blank input lines, whatever the other options and the grep
\* pattern are: no two printed lines of a source are blank with only blank
\* input lines between them.
C1_SqueezeOnePerRun ==
    \A i, j \in DOMAIN out :
        ( /\ i < j
          /\ out[i].src = out[j].src
          /\ srcs[out[i].src].c.squeeze_blank )
        => \E k \in out[i].idx .. out[j].idx : ~IsBlank(srcs[out[i].src].lines[k])

\* C1 witness: a source of three blank lines was read to its end with
\* squeeze_blank set and a grep pattern, a line was squeezed and exactly one
\* line was printed.
C1_Witness ==
    \E s \in DOMAIN srcs :
        /\ srcs[s].c.squeeze_blank
        /\ srcs[s].c.grep_pattern.some
        /\ srcs[s].status = "eof"
        /\ Len(srcs[s].lines) = 3
        /\ \A k \in 1..3 : IsBlank(srcs[s].lines[k])
        /\ Len(OutOf(s)) = 1
        /\ OutOf(s)[1].idx = 2

\* The number of labelled lines among the first n printed lines of a source
RECURSIVE LabelledUpTo(_, _)
LabelledUpTo(lines, n) ==
    IF n = 0 THEN 0
    ELSE LabelledUpTo(lines, n - 1) + (IF lines[n].label # 0 THEN 1 ELSE 0)

\* The prefix of a printed line without the styling tokens around the number
PlainPrefix(c, o) ==
    IF o.label = 0 THEN o.prefix
    ELSE SubSeq(o.prefix, Len(c.colors.number) + 1,
                Len(c.colors.number) + NumberWidth)
           \o SubSeq(o.prefix, Len(c.colors.number) + NumberWidth + Len(c.colors.reset) + 1,
                     Len(o.prefix))

LastPrintedBlank ==
    LET printed == OutOf(cur.src)
    IN  printed # <<>> /\ IsBlank(RawLine(printed[Len(printed)]))

\* C3 as stated: after a line that was not squeezed (rejected by grep or
\* printed) prev_blank is that line's blank status. A squeezed line is blank and
\* leaves prev_blank true, so this says: after any line, prev_blank is the
\* blank status of that line.
C3_FlagIsPreviousInputLine ==
    (pc = "lines" /\ cur.pos > 1) =>
        cur.prev_blank = IsBlank(cur.lines[cur.pos - 1])

\* C3 amended: a line rejected by grep leaves prev_blank as it was; prev_blank
\* is the blank status of the most recent printed line of the source (false
\* when none was printed), so a blank line is squeezed only when the most
\* recent printed line was blank.
C3_FlagIsLastPrintedLine ==
    pc = "lines" => cur.prev_blank = LastPrintedBlank

\* C3 witness: a grep pattern is set, the line just read was rejected by it and
\* its blank status differs from that of the last printed line.
C3_Witness ==
    /\ pc = "lines"
    /\ cur.pos > 1
    /\ GrepRejected(cur.c, cur.lines[cur.pos - 1])
    /\ OutOf(cur.src) # <<>>
    /\ LastPrintedBlank # IsBlank(cur.lines[cur.pos - 1])

----------------------------------------------------------------------------
(* The line renderer: one file of one line of up to MaxLineLen characters   *)
(* (letters, tab, and the control characters U+0001, U+007F and U+009F),    *)
(* under every combination of -A, -T, -r, with or without -n -l -E and -C,  *)
(* with a highlight pattern or none, on a terminal or not                   *)

MaxLineLen == 2

RenderChars == { Ord("a"), Ord("b"), TAB, 1, 127, 159 }

RenderFlags ==
    { Concat(<<a, t, r, x, h>>) :
        a \in {<<>>, <<Str(<<"-","A">>)>>},
        t \in {<<>>, <<Str(<<"-","T">>)>>},
        r \in {<<>>, <<Str(<<"-","r">>)>>},
        x \in {<<>>, <<Str(<<"-","n","l","E">>)>>, <<Str(<<"-","C">>)>>,
               <<Str(<<"-","C","n","l","E">>)>>},
        h \in {<<>>, <<Str(<<"-","H">>), <<>>>>, <<Str(<<"-","H">>), Str(<<"a">>)>>,
               <<Str(<<"-","H">>), Str(<<"a","b">>)>>} }

RenderEnvironments ==
    { Environment(<<Prog>> \o flags \o <<F>>, is_tty, F :> <<line>>, <<>>) :
        flags \in RenderFlags, is_tty \in BOOLEAN,
        line \in SeqsUpTo(RenderChars, MaxLineLen) }

InitRender == InitIn(RenderEnvironments \cup Tour)

SpecRender == InitRender /\ [][Batch]_vars

\* The config a printed line was rendered with
ConfigOf(o) == srcs[o.src].c

\* The body of a printed line before emphasis, from its raw line
BodyOf(o) == Transform(ConfigOf(o), RawLine(o))

\* C4: with the empty string as highlight pattern, rendering is a no-op with
\* colors enabled or disabled: the body printed is the transformed line, with
\* no styling token inserted anywhere.
C4_EmptyHighlightNoOp ==
    \A n \in DOMAIN out :
        ConfigOf(out[n]).highlight_pattern = Some(<<>>)
            => out[n].body = BodyOf(out[n])

\* The palette of rainbow mode: red, yellow, green, cyan, blue, magenta
Palette ==
    [k \in 0..5 |->
        CASE k = 0 -> Sgr(<<"3", "1">>) [] k = 1 -> Sgr(<<"3", "3">>)
          [] k = 2 -> Sgr(<<"3", "2">>) [] k = 3 -> Sgr(<<"3", "6">>)
          [] k = 4 -> Sgr(<<"3", "4">>) [] k = 5 -> Sgr(<<"3", "5">>)]

\* text from its (0-based) position at on, every character wrapped in the
\* palette colour of its position and followed by the reset token
RECURSIVE InRainbow(_, _, _)
InRainbow(text, at, reset) ==
    IF text = <<>> THEN <<>>
    ELSE Palette[at % 6] \o <<Head(text)>> \o reset
           \o InRainbow(Tail(text), at + 1, reset)

\* text with every occurrence of the non-empty pattern, found from the left,
\* wrapped in the highlight and reset tokens
RECURSIVE WithOccurrencesWrapped(_, _, _, _)
WithOccurrencesWrapped(text, pattern, highlight, reset) ==
    IF text = <<>> THEN <<>>
    ELSE IF StartsWith(text, pattern)
         THEN highlight \o pattern \o reset
                \o WithOccurrencesWrapped(SubSeq(text, Len(pattern) + 1, Len(text)),
                                          pattern, highlight, reset)
         ELSE <<Head(text)>>
                \o WithOccurrencesWrapped(Tail(text), pattern, highlight, reset)

\* text with the highlight and reset tokens at every character boundary, as the
\* empty pattern has them
RECURSIVE WithEmptyMatches(_, _, _)
WithEmptyMatches(text, highlight, reset) ==
    highlight \o reset \o
      (IF text = <<>> THEN <<>>
       ELSE <<Head(text)>> \o WithEmptyMatches(Tail(text), highlight, reset))

\* C5 as stated: highlight styling when a pattern is configured and the body
\* contains it; otherwise rainbow when rainbow mode is set; otherwise unstyled.
\* In particular a line without the configured pattern is in rainbow when
\* rainbow mode is set.
C5_RainbowWhenPatternAbsent ==
    \A n \in DOMAIN out :
        LET c == ConfigOf(out[n])
            body == BodyOf(out[n])
        IN  ( /\ c.rainbow_mode
              /\ ~(c.highlight_pattern.some /\ Contains(body, c.highlight_pattern.val)) )
            => out[n].body = InRainbow(body, 0, c.colors.reset)

\* C5 amended: when a highlight pattern is configured, its occurrences in the
\* body are wrapped in the highlight and reset tokens if the body contains it
\* and the body is printed unstyled if it does not, rainbow mode or not; only
\* with no highlight pattern and rainbow mode set is the character at position
\* i wrapped in palette colour i mod 6 and the reset token; otherwise the body
\* is printed unstyled.
C5_HighlightConfiguredExcludesRainbow ==
    \A n \in DOMAIN out :
        LET c == ConfigOf(out[n])
            body == BodyOf(out[n])
            pattern == c.highlight_pattern.val
        IN  out[n].body =
              IF c.highlight_pattern.some
              THEN IF ~Contains(body, pattern) THEN body
                   ELSE IF pattern = <<>>
                        THEN WithEmptyMatches(body, c.colors.highlight, c.colors.reset)
                        ELSE WithOccurrencesWrapped(body, pattern, c.colors.highlight,
                                                    c.colors.reset)
              ELSE IF c.rainbow_mode THEN InRainbow(body, 0, c.colors.reset)
              ELSE body

\* C5 witness: a line of two characters was printed with rainbow mode set and a
\* highlight pattern that its body does not contain.
C5_Witness ==
    \E n \in DOMAIN out :
        /\ ConfigOf(out[n]).rainbow_mode
        /\ ConfigOf(out[n]).use_colors
        /\ ConfigOf(out[n]).highlight_pattern.some
        /\ Len(BodyOf(out[n])) = 2
        /\ ~Contains(BodyOf(out[n]), ConfigOf(out[n]).highlight_pattern.val)

\* Is body the rendering of line with show_all_nonprinting in which every
\* control character other than tab is a caret and one printable ASCII
\* character, computed without overflow
RECURSIVE InCaretNotation(_, _, _)
InCaretNotation(c, line, body) ==
    IF line = <<>> THEN body = <<>>
    ELSE IF IsControl(Head(line)) /\ Head(line) # TAB
         THEN /\ Len(body) >= 2
              /\ body[1] = Ord("^")
              /\ body[2] \in 32..126
              /\ ~CaretOverflows(Head(line))
              /\ InCaretNotation(c, Tail(line), SubSeq(body, 3, Len(body)))
    ELSE IF Head(line) = TAB /\ c.show_tabs
         THEN /\ Len(body) >= 2
              /\ InCaretNotation(c, Tail(line), SubSeq(body, 3, Len(body)))
    ELSE /\ Len(body) >= 1
         /\ InCaretNotation(c, Tail(line), SubSeq(body, 2, Len(body)))

\* C10: with show_nonprinting, every control character other than tab is
\* printed as '^' and one printable ASCII character (32..126), DEL and
\* U+0080..U+009F included, and the u8 addition does not overflow.
C10_CaretIsPrintableAscii ==
    \A n \in DOMAIN out :
        LET c == ConfigOf(out[n])
        IN  (c.show_all_nonprinting /\ ~c.highlight_pattern.some /\ ~c.rainbow_mode)
            => InCaretNotation(c, RawLine(out[n]), out[n].body)

----------------------------------------------------------------------------
(* The main loop: up to MaxFiles file arguments among f, g, a file that does *)
(* not exist and "-", with or without a file named "-" on disk               *)

MaxFiles == 2

MainFlags ==
    { <<>>, <<Str(<<"-","s","n">>)>>, <<Str(<<"-","p">>)>>, <<Str(<<"-","a">>)>>,
      <<Str(<<"-","b">>), Str(<<"-","g">>), Str(<<"a">>)>> }

MainContents == { <<Str(<<"a">>), <<>>>>, <<(<<>>), Str(<<"a">>)>> }

MainDisks ==
    { (F :> f) @@ (G :> g) @@ d :
        f \in MainContents, g \in MainContents,
        d \in { <<>>, Dash :> <<Str(<<"a">>)>> } }

MainEnvironments ==
    { Environment(<<Prog>> \o flags \o files, FALSE, files_on_disk, input) :
        flags \in MainFlags,
        files \in SeqsUpTo({F, G, Missing, Dash}, MaxFiles),
        files_on_disk \in MainDisks,
        input \in { <<Str(<<"a">>), <<>>>> } }

InitMain == InitIn(MainEnvironments \cup Tour)

SpecMain == InitMain /\ [][Batch]_vars

\* The sources main has started
MainSources == SelectSeq(srcs, LAMBDA s : s.via = "main")

\* C6: with page mode set, every source of main (a named file or standard
\* input) is read whole and handed unmodified to the pager, and no line of it
\* is printed by the line mode.
C6_PageModePagesEverySource ==
    \A s \in DOMAIN srcs :
        ( /\ srcs[s].via = "main"
          /\ srcs[s].c.page_mode
          /\ srcs[s].mode # "open_error" )
        => /\ srcs[s].mode = "page"
           /\ OutOf(s) = <<>>
           /\ srcs[s].status = "eof" => \E k \in DOMAIN paged : paged[k] = srcs[s].lines

\* C9: a FILE argument that is exactly "-" makes the program read standard
\* input for that source; it is not opened as a file named "-".
C9_DashReadsStdin ==
    \A s \in DOMAIN srcs :
        (srcs[s].via = "main" /\ srcs[s].name = Dash)
        => /\ srcs[s].kind = "stdin"
           /\ srcs[s].mode # "open_error"
           /\ srcs[s].lines = stdin

\* The lines process_input prints for the first n lines of a source read
\* alone, from line k on with the given line_num and prev_blank
RECURSIVE PrintedAlone(_, _, _, _, _, _, _)
PrintedAlone(c, s, lines, n, k, line_num, prev_blank) ==
    IF k > n THEN <<>>
    ELSE IF c.squeeze_blank /\ IsBlank(lines[k]) /\ prev_blank
         THEN PrintedAlone(c, s, lines, n, k + 1, line_num, prev_blank)
    ELSE IF c.grep_pattern.some /\ ~Contains(lines[k], c.grep_pattern.val)
         THEN PrintedAlone(c, s, lines, n, k + 1, line_num, prev_blank)
    ELSE LET numbered == IF c.number_nonblank THEN ~IsBlank(lines[k])
                         ELSE c.show_line_numbers
             num == IF numbered THEN line_num + 1 ELSE line_num
         IN  <<Rendered(c, s, k, lines[k], num)>>
               \o PrintedAlone(c, s, lines, n, k + 1, num, IsBlank(lines[k]))

\* The number of lines of source s read so far
LinesRead(s) == IF srcs[s].status = "open" THEN cur.pos - 1 ELSE srcs[s].read

\* C7: sources are independent. The lines printed for a source in line mode
\* are those process_input prints for the lines read from that source alone,
\* starting from line_num = 0 and prev_blank = false, whatever came before it;
\* a read error ends only that source (nothing is printed for it after the
\* lines read), and when main is through its loop every file argument has
\* been started, in order, whether or not earlier ones failed to open or to
\* read.
C7_SourcesIndependent ==
    /\ \A s \in DOMAIN srcs :
          srcs[s].mode = "line" =>
              OutOf(s) = PrintedAlone(srcs[s].c, s, srcs[s].lines, LinesRead(s), 1, 0, FALSE)
    /\ (pc \in {"done", "shell"} /\ config.files # <<>>) =>
          /\ Len(MainSources) = Len(config.files)
          /\ \A i \in DOMAIN config.files : MainSources[i].name = config.files[i]

\* C7 witness: with -s and -n two files were processed; reading the first
\* failed after its two lines, the second of them blank, and the second file,
\* which starts with a blank line, was read to its end and has its blank line
\* printed with the number 1.
C7_Witness ==
    /\ pc = "done"
    /\ Len(srcs) = 2
    /\ config.squeeze_blank /\ config.show_line_numbers
    /\ srcs[1].mode = "line" /\ srcs[1].status = "error" /\ srcs[1].read = 2
    /\ IsBlank(srcs[1].lines[2])
    /\ srcs[2].mode = "line" /\ srcs[2].status = "eof"
    /\ OutOf(2) # <<>>
    /\ OutOf(2)[1].idx = 1 /\ IsBlank(RawLine(OutOf(2)[1])) /\ OutOf(2)[1].label = 1

----------------------------------------------------------------------------
(* The interactive shell: up to MaxInputs lines read *)

ShellEnvironments ==
    { Environment(<<Prog, Str(<<"-","i">>)>>, FALSE,
                  F :> <<Str(<<"b">>)>>, <<Str(<<"a">>)>>),
      Environment(<<Prog, Str(<<"-","-","i","n","t","e","r","a","c","t","i","v","e">>),
                    Str(<<"-","n">>), F>>, TRUE,
                  F :> <<Str(<<"a">>)>>, <<>>),
      Environment(<<Prog, Str(<<"-","i","a">>), Missing>>, TRUE,
                  F :> <<Str(<<"a">>)>>, <<>>) }

Init == InitIn(ShellEnvironments \cup Tour)

\* The whole program
Spec == Init /\ [][Next]_vars

\* The lines read that are not empty after trim, trimmed, in order
RECURSIVE Transcript(_)
Transcript(read) ==
    IF read = <<>> THEN <<>>
    ELSE IF Trim(Head(read)) = <<>> THEN Transcript(Tail(read))
    ELSE <<Trim(Head(read))>> \o Transcript(Tail(read))

\* The first word of the line read last
LastCommand(read) == SplitWhitespace(read[Len(read)])[1]

IsExit(word) == word \in {Str(<<"e","x","i","t">>), Str(<<"q","u","i","t">>)}

\* A step of the shell that reads a line: the history before is a prefix of
\* the history after, and the loop ends exactly when the line is exit or quit;
\* after any other line the shell reads again or is running that command
ShellStepContinues ==
    (pc = "shell" /\ inputs' # inputs) =>
        /\ Len(command_history') >= Len(command_history)
        /\ SubSeq(command_history', 1, Len(command_history)) = command_history
        /\ IF Trim(inputs'[Len(inputs')]) # <<>> /\ IsExit(LastCommand(inputs'))
           THEN pc' = "done"
           ELSE pc' \in {"shell", "lines"} /\ (pc' = "lines" => cur'.ret = "shell")

\* C8: the command transcript is at any time the sequence, in order, of the
\* lines read so far that are not empty (as trimmed), also while a command
\* runs and after an unknown command, a missing argument or a file that
\* cannot be opened; the transcript only grows, and of the lines read only
\* exit and quit end the loop.
C8_TranscriptIsInputs ==
    /\ [](command_history = Transcript(inputs))
    /\ [][ShellStepContinues]_vars
    /\ []((pc = "lines" /\ cur.ret = "shell") => command_history # <<>>)

\* C8 witness: two lines were read, an unknown command and a cat, with spaces
\* around it, of a file that cannot be opened; the transcript holds the two
\* commands and the shell reads on.
C8_Witness ==
    /\ pc = "shell"
    /\ Len(inputs) = 2
    /\ inputs[2] # Trim(inputs[2]) \o <<LF>>
    /\ command_history = <<Str(<<"b","o","g","u","s">>),
                           Str(<<"c","a","t"," "," ","m">>)>>
    /\ diag[Len(diag)] = Note("shell_open_error", Missing)

----------------------------------------------------------------------------
(* End of input in the shell, and output with colors disabled *)

\* Did the read that made inputs' return no data (read_line gave Ok(0): the
\* line is empty, without even a line feed)
ReadReturnedNothing == inputs' = Append(inputs, <<>>)

\* C11: the shell ends once its input is exhausted: when a read returns no
\* data without an exit or quit before it, the loop stops instead of
\* prompting again.
C11_EndOfInputEndsShell ==
    [][(pc = "shell" /\ ReadReturnedNothing) => pc' # "shell"]_vars

\* The whole text of a printed line
TextOf(o) == o.prefix \o o.body \o o.tail

\* Does text hold the start of an ANSI escape sequence, ESC [
HasEscapeSequence(text) ==
    \E k \in 1..(Len(text) - 1) : text[k] = ESC /\ text[k + 1] = Ord("[")

\* C12: with colors disabled (--no-color, -C, or output that is not a
\* terminal) no line printed in line mode holds an ANSI escape sequence,
\* whatever the other options are (rainbow mode, highlight, numbering,
\* show_length, show_ends); the input lines hold none themselves.
C12_NoEscapeWithoutColors ==
    \A n \in DOMAIN out :
        (~ConfigOf(out[n]).use_colors /\ ~HasEscapeSequence(RawLine(out[n])))
            => ~HasEscapeSequence(TextOf(out[n]))

====
